---- MODULE Spec2Model ----
(***************************************************************************)
(* Short_rate_models_calibration.ipynb as a state machine.                 *)
(*                                                                         *)
(* The notebook runs three calibrations in a row (Hull-White, Black-       *)
(* Karasinski, G2++).  Each one constructs a fresh model and engine,       *)
(* builds the swaption helpers from the quote list `data`, calls           *)
(* model.calibrate, reads model.params() and then calls                    *)
(* calibration_report(swaptions, data).                                    *)
(*                                                                         *)
(* QuantLib is an external library: none of its code is in the notebook.   *)
(* Its calls are modelled as an environment.  model.calibrate is an opaque *)
(* call that may write the model's parameter vector a bounded number of    *)
(* times and then returns (converged or not) or raises.  modelValue,       *)
(* blackPrice and impliedVolatility are arbitrary but deterministic        *)
(* functions of the helper object and their argument: the first call with  *)
(* a given argument picks the result, later calls repeat it (`lib`).       *)
(*                                                                         *)
(* Floats are fixed-point integers: a relative error r is held as          *)
(* r * Scale, a squared error as r^2 * Scale^2.                            *)
(***************************************************************************)
EXTENDS Integers, Sequences, FiniteSets, TLC

\* Longest quote list drawn for `data`.
MaxQuotes == 2
\* Most writes of the parameter vector inside one calibrate() call.
MaxSteps == 2
\* Most calls of calibration_report(swaptions, data) after one calibration.
MaxReportCalls == 2
\* Fixed-point resolution of the relative errors.
Scale == 2

\* CalibrationData(start, length, volatility); volatilities in vol units.
QuoteSet ==
    { [start |-> 1, length |-> 2, volatility |-> 1],
      [start |-> 2, length |-> 1, volatility |-> 2] }

RECURSIVE SeqsUpTo(_, _)
SeqsUpTo(S, n) ==
    IF n = 0 THEN { <<>> }
    ELSE LET shorter == SeqsUpTo(S, n - 1)
         IN  shorter \cup { Append(q, x) : q \in { t \in shorter : Len(t) = n - 1 }, x \in S }

\* FlatForward(settlement, 0.04875825, Actual365Fixed()), the rate times 10^8.
FlatForwardRate == 4875825

\* The three calibration cells, in notebook order.
Variants == << "HullWhite", "BlackKarasinski", "G2" >>

\* a, sigma = model.params()  /  a, sigma, b, eta, rho = model.params()
NParams(variant) == IF variant = "G2" THEN 5 ELSE 2

\* JamshidianSwaptionEngine(model) / TreeSwaptionEngine(model, 100) /
\* TreeSwaptionEngine(model, 25)
EngineFor(variant, modelId) ==
    CASE variant = "HullWhite"       -> [kind |-> "Jamshidian", model |-> modelId, steps |-> 0]
      [] variant = "BlackKarasinski" -> [kind |-> "Tree", model |-> modelId, steps |-> 100]
      [] OTHER                       -> [kind |-> "Tree", model |-> modelId, steps |-> 25]

\* Values one coordinate of a parameter vector may take (external optimizer).
ParamVals == { -1, 1 }
ParamSpace(n) == [1..n -> ParamVals]

\* Results the external pricers may give.
ModelPrices == 1..2
BlackPrices == 1..2
ImpliedVols == 1..2

NoModel == [id |-> 0, variant |-> "none", params |-> <<>>, state |-> "ABSENT"]
NoEngine == [kind |-> "none", model |-> 0, steps |-> 0]
NoReport == [rows |-> <<>>, printed |-> <<>>]
EmptyLib == [mv |-> <<>>, bp |-> <<>>, iv |-> <<>>]

VARIABLES
    data,            \* the quote list
    term_structure,  \* the yield curve handle
    run,             \* which calibration cell group is executing (1..3)
    pc,              \* position in the cell group
    created,         \* model instances constructed so far
    model,           \* the object bound to `model`
    engine,          \* the object bound to `engine`
    swaptions,       \* the list bound to `swaptions`
    iterations,      \* parameter writes done by the running calibrate()
    flag_seen,       \* what the caller kept of calibrate()'s result
    read_params,     \* the vector unpacked from model.params()
    i,               \* calibration_report: loop index (1-based)
    report_data,     \* calibration_report: rows so far
    cum_err,         \* calibration_report: sum of squared price errors
    cum_err2,        \* calibration_report: sum of squared vol errors
    printed,         \* the two "Cumulative Error" values printed
    returned,        \* the rows of the DataFrame returned
    calls,           \* calls of calibration_report in this run
    prev,            \* rows and printed values of the previous call
    lib,             \* results the external pricers have given so far
    error            \* the exception that stopped the notebook, if any

vars == << data, term_structure, run, pc, created, model, engine, swaptions,
           iterations, flag_seen, read_params, i, report_data, cum_err,
           cum_err2, printed, returned, calls, prev, lib, error >>

reportLocals == << i, report_data, cum_err, cum_err2 >>
reportOut == << printed, returned, calls, prev >>
inputs == << data, term_structure >>

Init ==
    /\ data \in SeqsUpTo(QuoteSet, MaxQuotes)
    /\ term_structure = FlatForwardRate
    /\ run = 1
    /\ pc = "construct"
    /\ created = 0
    /\ model = NoModel
    /\ engine = NoEngine
    /\ swaptions = <<>>
    /\ iterations = 0
    /\ flag_seen = "nothing"
    /\ read_params = <<>>
    /\ i = 0
    /\ report_data = <<>>
    /\ cum_err = 0
    /\ cum_err2 = 0
    /\ printed = <<>>
    /\ returned = <<>>
    /\ calls = 0
    /\ prev = NoReport
    /\ lib = EmptyLib
    /\ error = "none"

----------------------------------------------------------------------------
\* Mutation of NewModel: the object already bound to `model` is kept and
\* re-parameterised instead of a new one being constructed.
ReuseModel(old, n, variant, p) ==
    IF old.id = 0
    THEN [id |-> n + 1, variant |-> variant, params |-> p, state |-> "UNCALIBRATED"]
    ELSE [old EXCEPT !.variant = variant, !.params = p]

\* model = HullWhite(term_structure) / BlackKarasinski(...) / G2(...): a new
\* object, the n+1st constructed, whatever `model` was bound to before.
NewModel(old, n, variant, p) ==
    [id |-> n + 1, variant |-> variant, params |-> p, state |-> "UNCALIBRATED"]

\* model = ...(term_structure); engine = ...Engine(model, ...)
ConstructModel ==
    /\ pc = "construct"
    /\ \E p \in ParamSpace(NParams(Variants[run])) :
          model' = NewModel(model, created, Variants[run], p)
    /\ created' = created + 1
    /\ engine' = EngineFor(Variants[run], model'.id)
    /\ pc' = "helpers"
    /\ UNCHANGED << inputs, run, swaptions, iterations, flag_seen, read_params,
                    reportLocals, reportOut, lib, error >>

----------------------------------------------------------------------------
\* SwaptionHelper(Period(d.start, Years), Period(d.length, Years), vol_handle,
\* index, ..., term_structure); `k` is the identity of the new object.
SwaptionHelper(k, d, ts) ==
    [id |-> k, start |-> d.start, length |-> d.length,
     volatility |-> d.volatility, term_structure |-> ts, engine |-> NoEngine]

\* helper.setPricingEngine(engine)
setPricingEngine(h, eng) == [h EXCEPT !.engine = eng]

\* Mutation of AppendHelper: swaptions.insert(0, helper)
PrependHelper(acc, h) == << h >> \o acc

\* swaptions.append(helper)
AppendHelper(acc, h) == Append(acc, h)

\* for d in data : ... (the loop of create_swaption_helpers, from quote k on)
RECURSIVE HelpersFrom(_, _, _, _, _)
HelpersFrom(d, k, ts, eng, acc) ==
    IF k > Len(d) THEN acc
    ELSE HelpersFrom(d, k + 1, ts, eng,
                     AppendHelper(acc, setPricingEngine(SwaptionHelper(k, d[k], ts), eng)))

create_swaption_helpers(d, ts, eng) == HelpersFrom(d, 1, ts, eng, <<>>)

\* swaptions = create_swaption_helpers(data, index, term_structure, engine)
CreateHelpers ==
    /\ pc = "helpers"
    /\ swaptions' = create_swaption_helpers(data, term_structure, engine)
    /\ pc' = "calibrate"
    /\ UNCHANGED << inputs, run, created, model, engine, iterations, flag_seen,
                    read_params, reportLocals, reportOut, lib, error >>

----------------------------------------------------------------------------
\* model.calibrate(swaptions, optimization_method, end_criteria) is entered.
CalibrateBegin ==
    /\ pc = "calibrate"
    /\ model' = [model EXCEPT !.state = "CALIBRATING"]
    /\ iterations' = 0
    /\ pc' = "calibrating"
    /\ UNCHANGED << inputs, run, created, engine, swaptions, flag_seen,
                    read_params, reportLocals, reportOut, lib, error >>

\* The external optimizer writes a parameter vector to the model.
OptimizerStep ==
    /\ pc = "calibrating"
    /\ iterations < MaxSteps
    /\ \E p \in ParamSpace(NParams(model.variant)) :
          model' = [model EXCEPT !.params = p]
    /\ iterations' = iterations + 1
    /\ UNCHANGED << inputs, run, pc, created, engine, swaptions, flag_seen,
                    read_params, reportLocals, reportOut, lib, error >>

\* Mutation of CallerKeeps: the caller binds what calibrate() tells it.
CallerKeepsResult(outcome) == outcome

\* model.calibrate(...) is an expression statement: its value is dropped.
CallerKeeps(outcome) == "nothing"

\* calibrate() returns, having converged or not.
CalibrateReturn ==
    /\ pc = "calibrating"
    /\ \E outcome \in { "CALIBRATED", "FAILED" } :
          /\ model' = [model EXCEPT !.state = outcome]
          /\ flag_seen' = CallerKeeps(outcome)
    /\ iterations' = 0
    /\ pc' = "params"
    /\ UNCHANGED << inputs, run, created, engine, swaptions, read_params,
                    reportLocals, reportOut, lib, error >>

\* calibrate() raises: the cell, and the notebook run, stop there.
CalibrateRaise ==
    /\ pc = "calibrating"
    /\ pc' = "aborted"
    /\ error' = "RuntimeError"
    /\ UNCHANGED << inputs, run, created, model, engine, swaptions, iterations,
                    flag_seen, read_params, reportLocals, reportOut, lib >>

\* a, sigma = model.params()  (a, sigma, b, eta, rho for G2); print(...)
ReadParams ==
    /\ pc = "params"
    /\ IF Len(model.params) = NParams(Variants[run])
       THEN /\ read_params' = model.params
            /\ pc' = "report"
            /\ error' = error
       ELSE /\ read_params' = read_params
            /\ pc' = "aborted"
            /\ error' = "ValueError"
    /\ UNCHANGED << inputs, run, created, model, engine, swaptions, iterations,
                    flag_seen, reportLocals, reportOut, lib >>

----------------------------------------------------------------------------
\* The external pricers.  A call whose argument was seen before repeats its
\* result; a new argument may give any result.
Agrees(memo, key, v) == key \in DOMAIN memo => memo[key] = v
Remember(memo, key, v) == IF key \in DOMAIN memo THEN memo ELSE memo @@ (key :> v)

\* s.impliedVolatility(model_price, 1e-5, 50, 0.0, 0.50) returns a volatility
\* or raises.
IVResults ==
    { [ok |-> TRUE, value |-> v] : v \in ImpliedVols } \cup { [ok |-> FALSE, value |-> 0] }

\* x / y - 1.0, as a multiple of 1/Scale (y # 0).
RelError(x, y) == (x * Scale) \div y - Scale

\* math.sqrt(x), x a multiple of 1/Scale^2, the result a multiple of 1/Scale.
sqrt(x) == CHOOSE r \in 0..x : r * r <= x /\ (r + 1) * (r + 1) > x

\* cum_err += rel_error ** 2
Accumulate(cum, r) == cum + r * r

\* market_vol = data[i].volatility
MarketVol(d, k) == d[k].volatility

Raise(e) == [error |-> e, row |-> << >>]

\* The body of `for i, s in enumerate(swaptions)`, given what the three
\* pricer calls give: the row appended, or the exception raised.
ReportRowResult(d, k, mp, bp, iv) ==
    IF k > Len(d) THEN Raise("IndexError")
    ELSE IF bp = 0 THEN Raise("ZeroDivisionError")
    ELSE IF ~iv.ok THEN Raise("RuntimeError")
    ELSE IF MarketVol(d, k) = 0 THEN Raise("ZeroDivisionError")
    ELSE [error |-> "none",
          row |-> [model_price |-> mp, market_price |-> bp,
                   implied_vol |-> iv.value, market_vol |-> MarketVol(d, k),
                   rel_error |-> RelError(mp, bp),
                   rel_error2 |-> RelError(iv.value, MarketVol(d, k))]]

\* Mutation of ReportFrame: the report drops the first quote of the list.
ReportConsumesQuotes ==
    /\ data' = IF data = << >> THEN data ELSE Tail(data)
    /\ UNCHANGED << term_structure, run, created, model, engine, swaptions,
                    iterations, flag_seen, read_params >>

\* calibration_report assigns only to its own locals: nothing of the caller's
\* (the quotes, the curve, the model, the engine, the helpers) is written.
ReportFrame ==
    UNCHANGED << inputs, run, created, model, engine, swaptions, iterations,
                 flag_seen, read_params >>

\* calibration_report(swaptions, data) is entered: report_data = [],
\* cum_err = 0.0, cum_err2 = 0.0
ReportStart ==
    /\ pc = "report"
    /\ i' = 1
    /\ report_data' = << >>
    /\ cum_err' = 0
    /\ cum_err2' = 0
    /\ calls' = calls + 1
    /\ pc' = "report_loop"
    /\ ReportFrame
    /\ UNCHANGED << printed, returned, prev, lib, error >>

\* One pass of the loop over enumerate(swaptions).
ReportRow ==
    /\ pc = "report_loop"
    /\ i <= Len(swaptions)
    /\ \E mp \in ModelPrices, bp \in BlackPrices, iv \in IVResults :
          LET s == swaptions[i]
              res == ReportRowResult(data, i, mp, bp, iv)
          IN  /\ Agrees(lib.mv, << s.id, model.params >>, mp)
              /\ i <= Len(data) => Agrees(lib.bp, << s.id, MarketVol(data, i) >>, bp)
              /\ Agrees(lib.iv, << s.id, mp >>, iv)
              /\ IF res.error = "none"
                 THEN /\ report_data' = Append(report_data, res.row)
                      /\ cum_err' = Accumulate(cum_err, res.row.rel_error)
                      /\ cum_err2' = Accumulate(cum_err2, res.row.rel_error2)
                      /\ i' = i + 1
                      /\ lib' = [mv |-> Remember(lib.mv, << s.id, model.params >>, mp),
                                 bp |-> Remember(lib.bp, << s.id, MarketVol(data, i) >>, bp),
                                 iv |-> Remember(lib.iv, << s.id, mp >>, iv)]
                      /\ UNCHANGED << pc, error >>
                 ELSE /\ pc' = "aborted"
                      /\ error' = res.error
                      /\ UNCHANGED << reportLocals, lib >>
    /\ ReportFrame
    /\ UNCHANGED reportOut

\* Mutation of CumulativeError: the sum is printed without its root.
CumulativeErrorNoRoot(cum) == cum

\* math.sqrt(cum_err), as printed
CumulativeError(cum) == sqrt(cum)

\* print("Cumulative Error Price : %7.5f" % math.sqrt(cum_err)), the same for
\* cum_err2, and return DataFrame(report_data, ...)

ReportFinish ==
    /\ pc = "report_loop"
    /\ i > Len(swaptions)
    /\ printed' = << CumulativeError(cum_err), CumulativeError(cum_err2) >>
    /\ returned' = report_data
    /\ pc' = "report_done"
    /\ ReportFrame
    /\ UNCHANGED << reportLocals, calls, prev, lib, error >>

\* calibration_report(swaptions, data) is called once more on the same objects.
ReportAgain ==
    /\ pc = "report_done"
    /\ calls < MaxReportCalls
    /\ prev' = [rows |-> returned, printed |-> printed]
    /\ pc' = "report"
    /\ UNCHANGED << inputs, run, created, model, engine, swaptions, iterations,
                    flag_seen, read_params, reportLocals, printed, returned,
                    calls, lib, error >>

\* The next calibration cell starts; the report's locals and output are gone.
NextRun ==
    /\ pc = "report_done"
    /\ run < Len(Variants)
    /\ run' = run + 1
    /\ pc' = "construct"
    /\ i' = 0
    /\ report_data' = << >>
    /\ cum_err' = 0
    /\ cum_err2' = 0
    /\ printed' = << >>
    /\ returned' = << >>
    /\ calls' = 0
    /\ prev' = NoReport
    /\ lib' = EmptyLib
    /\ UNCHANGED << inputs, created, model, engine, swaptions, iterations,
                    flag_seen, read_params, error >>

\* The last report is done: the calibration part of the notebook is over.
Finish ==
    /\ pc = "report_done"
    /\ run = Len(Variants)
    /\ pc' = "finished"
    /\ UNCHANGED << inputs, run, created, model, engine, swaptions, iterations,
                    flag_seen, read_params, reportLocals, reportOut, lib, error >>

----------------------------------------------------------------------------
\* Positions of a cell group at which the helpers of this run exist.
AfterHelpers ==
    { "calibrate", "calibrating", "params", "report", "report_loop",
      "report_done", "finished", "aborted" }

\* Positions at which the caller has read model.params() in this run.
AfterParams == { "report", "report_loop", "report_done", "finished" }

LifecycleMoves ==
    { << "UNCALIBRATED", "CALIBRATING" >>,
      << "CALIBRATING", "CALIBRATED" >>,
      << "CALIBRATING", "FAILED" >> }

\* C1: the lifecycle state of a model instance only moves UNCALIBRATED ->
\* CALIBRATING -> CALIBRATED or FAILED; CALIBRATED and FAILED are terminal; an
\* UNCALIBRATED state appears only with a newly constructed instance.
C1_LifecycleForwardOnly ==
    [][ IF model'.id = model.id
        THEN \/ model'.state = model.state
             \/ << model.state, model'.state >> \in LifecycleMoves
        ELSE /\ model'.id = created'
             /\ model'.id > created
             /\ model'.state = "UNCALIBRATED" ]_vars

\* The third instance has been calibrated after two earlier instances were.
C1_Witness ==
    /\ pc = "finished"
    /\ created = 3
    /\ model.id = 3
    /\ model.state = "CALIBRATED"

\* C4 as stated: the caller has the converged flag in hand before it uses the
\* parameters (reads params(), generates the report).
C4_CallerChecksFlag ==
    pc \in AfterParams => flag_seen # "nothing"

\* C4, amended: the value of calibrate() is dropped; in both outcomes the
\* caller reads params() and goes on to the report with no flag in hand, and
\* the vector it read is the model's.
C4_CallerUsesParamsUnchecked ==
    pc \in AfterParams =>
        /\ flag_seen = "nothing"
        /\ model.state \in { "CALIBRATED", "FAILED" }
        /\ read_params = model.params

\* A report was produced from a calibration that did not converge.
C4_Witness ==
    /\ pc = "report_done"
    /\ model.state = "FAILED"
    /\ read_params = model.params
    /\ Len(returned) > 0

\* C7: the parameter vector of a model changes only by a write of the
\* optimizer inside calibrate(); no step changes the quote list or the curve;
\* a second calibration_report on the same objects gives the same rows and the
\* same two cumulative errors.
C7_OnlyOptimizerWrites ==
    [][ /\ data' = data
        /\ term_structure' = term_structure
        /\ (model'.id = model.id /\ model'.params # model.params)
              => (pc = "calibrating" /\ pc' = "calibrating")
        /\ (pc' = "report_done" /\ calls' >= 2)
              => (returned' = prev'.rows /\ printed' = prev'.printed) ]_vars

\* A second report over two instruments with a non-zero price error is done.
C7_Witness ==
    /\ pc = "report_done"
    /\ calls = 2
    /\ Len(returned) = 2
    /\ printed[1] > 0
    /\ prev.rows = returned

\* C8: one helper per quote, in quote order, each bound to the engine passed
\* in; one report row per helper, row k made from helper k and quote k.
C8_OnePerQuoteInOrder ==
    /\ pc \in AfterHelpers =>
          /\ Len(swaptions) = Len(data)
          /\ \A k \in 1..Len(data) :
                /\ swaptions[k].id = k
                /\ swaptions[k].start = data[k].start
                /\ swaptions[k].length = data[k].length
                /\ swaptions[k].volatility = data[k].volatility
                /\ swaptions[k].engine = engine
                /\ swaptions[k].engine.model = model.id
    /\ pc = "report_done" =>
          /\ Len(returned) = Len(swaptions)
          /\ \A k \in 1..Len(returned) :
                /\ returned[k].market_vol = data[k].volatility
                /\ returned[k].market_price
                      = lib.bp[<< swaptions[k].id, data[k].volatility >>]
                /\ returned[k].model_price
                      = lib.mv[<< swaptions[k].id, model.params >>]
                /\ lib.iv[<< swaptions[k].id, returned[k].model_price >>]
                      = [ok |-> TRUE, value |-> returned[k].implied_vol]

\* A report over two different quotes, priced differently, has returned.
C8_Witness ==
    /\ pc = "report_done"
    /\ Len(data) = 2
    /\ data[1] # data[2]
    /\ Len(returned) = 2
    /\ returned[1].market_price # returned[2].market_price

RECURSIVE SumSq(_, _)
\* The sum of the squared price (which = 1) or vol (which = 2) errors of rows.
SumSq(rows, which) ==
    IF rows = << >> THEN 0
    ELSE LET r == IF which = 1 THEN Head(rows).rel_error ELSE Head(rows).rel_error2
         IN  r * r + SumSq(Tail(rows), which)

\* e is x / y - 1 cut to a multiple of 1/Scale.
IsRelError(e, x, y) ==
    /\ (e + Scale) * y <= x * Scale
    /\ x * Scale < (e + Scale + 1) * y

\* p is the root of t cut to a whole number.
IsRoot(p, t) == p >= 0 /\ p * p <= t /\ t < (p + 1) * (p + 1)

\* C9 as stated: each printed scalar is the root of the MEAN of the squared
\* errors of the n rows (n * p^2 <= sum < n * (p + 1)^2).
C9_RootMeanSquare ==
    (pc = "report_done" /\ Len(returned) >= 1) =>
        \A w \in 1..2 :
            /\ printed[w] >= 0
            /\ Len(returned) * printed[w] * printed[w] <= SumSq(returned, w)
            /\ SumSq(returned, w) < Len(returned) * (printed[w] + 1) * (printed[w] + 1)

\* C9, amended: each printed scalar is the root of the SUM of the squared
\* errors of the rows (no division by n), the price error of a row being
\* modelPrice / marketPrice - 1 and its vol error impliedVol / marketVol - 1.
C9_RootSumOfSquares ==
    pc = "report_done" =>
        /\ \A w \in 1..2 : IsRoot(printed[w], SumSq(returned, w))
        /\ \A k \in 1..Len(returned) :
              /\ IsRelError(returned[k].rel_error,
                            returned[k].model_price, returned[k].market_price)
              /\ IsRelError(returned[k].rel_error2,
                            returned[k].implied_vol, returned[k].market_vol)

\* A report of two rows with non-zero price and vol errors has printed.
C9_Witness ==
    /\ pc = "report_done"
    /\ Len(returned) = 2
    /\ printed[1] > 0
    /\ printed[2] > 0
    /\ returned[1].rel_error # returned[2].rel_error

Next ==
    \/ ConstructModel
    \/ CreateHelpers
    \/ CalibrateBegin
    \/ OptimizerStep
    \/ CalibrateReturn
    \/ CalibrateRaise
    \/ ReadParams
    \/ ReportStart
    \/ ReportRow
    \/ ReportFinish
    \/ ReportAgain
    \/ NextRun
    \/ Finish

Spec == Init /\ [][Next]_vars
====
